---- MODULE Spec2Model ----
(***************************************************************************)
(* A model of life-vault's in-memory request rate limiter                  *)
(* (backend/middleware/rateLimiter.js): one process-wide Map keyed by the  *)
(* caller's address, the middleware closures made by rateLimit(options),   *)
(* and the periodic cleanup timer.  Node runs each middleware invocation   *)
(* and each timer callback to completion (the code has no await), so each  *)
(* of them is one action.  Times are Date.now() values in milliseconds.    *)
(*                                                                         *)
(* The second half models the health routes (backend/routes/health.js):    *)
(* the tables they query, the upload directory, and the async handlers,    *)
(* which run from one await to the next as one action each.                *)
(***************************************************************************)
EXTENDS Integers, Sequences, FiniteSets, TLC

VARIABLES
    rateLimitMap,   \* the module-level Map: key -> [count, firstRequest, windowMs]
    clock,          \* the latest value Date.now() returned
    res,            \* observer: what the latest observed middleware invocation did with
                    \* next and res (<<>>: none yet, or something else ran since)
    solo,           \* observer: the Map as it would be had each key been served alone
    nosweep,        \* observer: the Map as it would be had the cleanup timer never run
    probe,          \* observer: the (limiter, key) pair whose own requests are counted
    issued,         \* observer: requests of the probe pair since the key's window began
    admitted,       \* observer: of those, the ones that reached next()
    iso,            \* observer: the probe pair's entry in a store of that policy alone
    lastDeny,       \* observer: retryAfter of the latest denial in the probe key's window
    log,            \* observer: the decisions so far, oldest first (scenario runs only)
    tables,         \* the rows of health_vitals, medical_reports, documents, families,
                    \* users and (as profiles) the family_members that registration adds
    uploads,        \* the names of the files in the upload directory
    active,         \* the health handlers in flight: slot -> <<>> or <<handler state>>
    sent,           \* observer: the response the latest step sent (<<>>: it sent none)
    serial          \* the number of health requests received so far

healthVars == <<tables, uploads, active, sent, serial>>

limiterVars == <<rateLimitMap, res, solo, nosweep, probe, issued, admitted, iso, lastDeny, log>>

vars == <<rateLimitMap, clock, res, solo, nosweep, probe, issued, admitted, iso, lastDeny, log,
          tables, uploads, active, sent, serial>>

(* ------------------------------ bounds ------------------------------ *)

\* Date.now() takes the values 0, 500, ..., 500 * MaxTicks.
MaxTicks == 3

\* Quotas (options.max) range over 0 .. MaxQuota.
MaxQuota == 2

\* The probe pair issues at most this many requests in one window.
MaxIssued == 4

\* A scenario run makes at most this many requests.
MaxLog == 4

(* ------------------------------ inputs ------------------------------ *)

Undefined == "undefined"

\* The requests: req.ip may be missing, and req.connection.remoteAddress is
\* then the key.
Requests ==
    {[ip |-> "ip1", remoteAddress |-> "ip2"],
     [ip |-> Undefined, remoteAddress |-> "ip2"]}

Times == {t * 500 : t \in 0 .. MaxTicks}

WindowSet == {500, 1500}

MessageFor(w) ==
    IF w = 500 THEN "Too many file uploads, please try again later."
    ELSE "Too many requests, please try again later."

\* The options objects rateLimit is called with.
OptionSet ==
    {[windowMs |-> w, max |-> m, message |-> MessageFor(w)] :
        w \in WindowSet, m \in 0 .. MaxQuota}

(* ------------------------- rateLimiter.js --------------------------- *)

\* Math.ceil(a / b) for an integer a and b > 0.
Ceil(a, b) == -((-a) \div b)

\* Faulty variant: windowMs and max are not read from the options
rateLimitDefaults(options) ==
    [windowMs |-> 15 * 60 * 1000,
     max      |-> 100,
     message  |-> IF "message" \in DOMAIN options THEN options.message
                  ELSE "Too many requests from this IP, please try again later."]

\* const { windowMs = ..., max = ..., message = ... } = options
rateLimit(options) ==
    [windowMs |-> IF "windowMs" \in DOMAIN options THEN options.windowMs ELSE 15 * 60 * 1000,
     max      |-> IF "max" \in DOMAIN options THEN options.max ELSE 100,
     message  |-> IF "message" \in DOMAIN options THEN options.message
                  ELSE "Too many requests from this IP, please try again later."]

\* The middleware closures in use.
Limiters == {rateLimit(o) : o \in OptionSet}

\* const key = req.ip || req.connection.remoteAddress
KeyOf(req) == IF req.ip # Undefined THEN req.ip ELSE req.remoteAddress

Keys == {KeyOf(r) : r \in Requests}

\* Faulty variant: a missing key is never found
HasDefined(m, key) == key # Undefined /\ key \in DOMAIN m

\* rateLimitMap.has(key)
Has(m, key) == key \in DOMAIN m

\* Faulty variant: the Map is replaced by one that holds the key alone
MapSetOnly(m, key, value) == [k \in {key} |-> value]

\* rateLimitMap.set(key, value)
MapSet(m, key, value) ==
    [k \in DOMAIN m \cup {key} |-> IF k = key THEN value ELSE m[k]]

\* { count: 1, firstRequest: now, windowMs }
FreshEntry(now, windowMs) ==
    [count |-> 1, firstRequest |-> now, windowMs |-> windowMs]

\* Faulty variant: >= for >: the window ends one millisecond early
ExpiredAtBoundary(data, now) == now - data.firstRequest >= data.windowMs

\* Faulty variant: an entry lives one second past its window
ExpiredLate(data, now) == now - data.firstRequest > data.windowMs + 1000

\* now - data.firstRequest > data.windowMs
Expired(data, now) == now - data.firstRequest > data.windowMs

\* Faulty variant: > for >=: one request more than the quota
LimitExceededStrict(data, max) == data.count > max

\* data.count >= max
LimitExceeded(data, max) == data.count >= max

\* Faulty variant: the time elapsed in the window for the time left in it
RetryElapsed(data, now) == Ceil(now - data.firstRequest, 1000)

\* Math.ceil((data.firstRequest + data.windowMs - now) / 1000)
RetryAfter(data, now) == Ceil(data.firstRequest + data.windowMs - now, 1000)

\* Faulty variant: the increment is lost
IncrementLost(data) == data

\* data.count++
Incremented(data) == [data EXCEPT !.count = @ + 1]

\* return next()
CallNext == [next |-> 1, status |-> 0, body |-> <<>>]

\* Faulty variant: the return is missing: the 429 is sent and next() is called too
Respond429NoReturn(data, lim, now) ==
    [next   |-> 1,
     status |-> 429,
     body   |-> <<[error      |-> "Rate limit exceeded",
                   message    |-> lim.message,
                   retryAfter |-> Ceil(data.firstRequest + data.windowMs - now, 1000)]>>]

\* return res.status(429).json({ error, message, retryAfter })
Respond429(data, lim, now) ==
    [next   |-> 0,
     status |-> 429,
     body   |-> <<[error      |-> "Rate limit exceeded",
                   message    |-> lim.message,
                   retryAfter |-> RetryAfter(data, now)]>>]

\* Faulty variant: a denied request is counted too.
HandlerCountsDenied(m, lim, key, now) ==
    IF ~Has(m, key)
    THEN [map |-> MapSet(m, key, FreshEntry(now, lim.windowMs)), did |-> CallNext]
    ELSE IF Expired(m[key], now)
    THEN [map |-> MapSet(m, key, FreshEntry(now, lim.windowMs)), did |-> CallNext]
    ELSE IF LimitExceeded(m[key], lim.max)
    THEN [map |-> MapSet(m, key, Incremented(m[key])), did |-> Respond429(m[key], lim, now)]
    ELSE [map |-> MapSet(m, key, Incremented(m[key])), did |-> CallNext]

\* The body of the middleware: the Map it leaves and what it did with next/res.
Handler(m, lim, key, now) ==
    IF ~Has(m, key)
    THEN [map |-> MapSet(m, key, FreshEntry(now, lim.windowMs)), did |-> CallNext]
    ELSE IF Expired(m[key], now)
    THEN [map |-> MapSet(m, key, FreshEntry(now, lim.windowMs)), did |-> CallNext]
    ELSE IF LimitExceeded(m[key], lim.max)
    THEN [map |-> m, did |-> Respond429(m[key], lim, now)]
    ELSE [map |-> MapSet(m, key, Incremented(m[key])), did |-> CallNext]

\* What one invocation did, with the limiter, the key and the key's entry
\* before it (a sequence of zero or one entry).
Outcome(m, lim, key, now) ==
    [lim    |-> lim,
     key    |-> key,
     before |-> IF Has(m, key) THEN <<m[key]>> ELSE <<>>,
     did    |-> Handler(m, lim, key, now).did]

\* Faulty variant: the timer also deletes an entry in the last millisecond of its window
SweepMapAtBoundary(m, now) ==
    [k \in {x \in DOMAIN m : now - m[x].firstRequest < m[x].windowMs} |-> m[k]]

\* The setInterval callback: delete every expired entry.
SweepMap(m, now) ==
    [k \in {x \in DOMAIN m : ~Expired(m[x], now)} |-> m[k]]

EmptyMap == [k \in {} |-> 0]

(* ----------------------------- actions ------------------------------ *)

\* The slots a health handler can run in: two requests can be in flight at once.
Slots == {1, 2}

\* The tables the routes write, with no row.
NoRows ==
    [health_vitals |-> {}, medical_reports |-> {}, documents |-> {},
     families |-> {}, users |-> {}, profiles |-> {}]

\* The routes before any request: empty tables, an empty upload directory.
HealthStart ==
    /\ tables = NoRows
    /\ uploads = {}
    /\ active = [s \in Slots |-> <<>>]
    /\ sent = <<>>
    /\ serial = 0

\* (req, res, next) => { ... } of the limiter lim, run at Date.now() = now.
Middleware(lim, req, now) ==
    /\ now >= clock
    /\ clock' = now
    /\ rateLimitMap' = Handler(rateLimitMap, lim, KeyOf(req), now).map
    /\ UNCHANGED healthVars

\* The invocation's calls of next and res, observed.
Observed(lim, req, now) ==
    res' = <<Outcome(rateLimitMap, lim, KeyOf(req), now)>>

\* The cleanup timer fires at Date.now() = now.
Sweep(now) ==
    /\ now >= clock
    /\ clock' = now
    /\ rateLimitMap' = SweepMap(rateLimitMap, now)
    /\ res' = <<>>
    /\ UNCHANGED healthVars

CoreInit ==
    /\ rateLimitMap = EmptyMap
    /\ clock = 0
    /\ res = <<>>
    /\ HealthStart

(* --------- observers: each key served alone; no cleanup timer ------- *)

\* The part of a Map that belongs to one key.
Alone(m, key) == [k \in DOMAIN m \cap {key} |-> m[k]]

NoRun == [map |-> EmptyMap, did |-> <<>>, before |-> <<>>]

\* A run in which the handler only ever sees the entry of the request's key.
SoloRequest(lim, key, now) ==
    LET h == Handler(Alone(solo.map, key), lim, key, now)
    IN  solo' = [map    |-> [k \in DOMAIN solo.map \cup {key} |->
                                IF k = key THEN h.map[key] ELSE solo.map[k]],
                 did    |-> <<h.did>>,
                 before |-> IF Has(solo.map, key) THEN <<solo.map[key]>> ELSE <<>>]

SoloSweep(now) ==
    solo' = [map    |-> [k \in {x \in DOMAIN solo.map :
                                   Has(SweepMap(Alone(solo.map, x), now), x)} |-> solo.map[k]],
             did    |-> <<>>,
             before |-> <<>>]

\* A run of the same requests in which the cleanup timer never fires.
NoSweepRequest(lim, key, now) ==
    LET h == Handler(nosweep.map, lim, key, now)
    IN  nosweep' = [map    |-> h.map,
                    did    |-> <<h.did>>,
                    before |-> IF Has(nosweep.map, key) THEN <<nosweep.map[key]>> ELSE <<>>]

Init ==
    /\ CoreInit
    /\ solo = NoRun
    /\ nosweep = NoRun
    /\ probe = <<>>
    /\ issued = 0
    /\ admitted = 0
    /\ iso = <<>>
    /\ lastDeny = <<>>
    /\ log = <<>>

Request ==
    \E lim \in Limiters, req \in Requests, now \in Times :
        /\ Middleware(lim, req, now)
        /\ Observed(lim, req, now)
        /\ SoloRequest(lim, KeyOf(req), now)
        /\ NoSweepRequest(lim, KeyOf(req), now)
        /\ UNCHANGED <<probe, issued, admitted, iso, lastDeny, log>>

Cleanup ==
    \E now \in Times :
        /\ Sweep(now)
        /\ SoloSweep(now)
        /\ UNCHANGED <<nosweep, probe, issued, admitted, iso, lastDeny, log>>

Next == Request \/ Cleanup

Spec == Init /\ [][Next]_vars

(* ------------------------- claims under Spec ------------------------ *)

Last == res[1]

Answered == res # <<>>

Allowed == Answered /\ Last.did.next = 1

Denied == Answered /\ Last.did.status = 429

\* C3: a request that finds its key's entry expired (now - windowStart >
\* windowLength of the entry) is allowed and leaves the entry at count 1 with
\* windowStart = now, whatever the count was; a request at exactly
\* now - windowStart = windowLength is still counted in the old window.
C3_ExpiredWindowResets ==
    (Answered /\ Last.before # <<>>) =>
        LET d == Last.before[1]
            e == rateLimitMap[Last.key]
        IN  /\ (clock - d.firstRequest > d.windowMs) =>
                    /\ Last.did = CallNext
                    /\ e.count = 1
                    /\ e.firstRequest = clock
            /\ (clock - d.firstRequest = d.windowMs) =>
                    /\ e.firstRequest = d.firstRequest
                    /\ e.count = d.count + Last.did.next
                    /\ (d.count >= Last.lim.max => Last.did.status = 429)

\* A reset of an entry whose count had reached the limiter's quota.
C3_Witness ==
    /\ Answered /\ Last.before # <<>>
    /\ clock - Last.before[1].firstRequest > Last.before[1].windowMs
    /\ Last.lim.max >= 1
    /\ Last.before[1].count >= Last.lim.max
    /\ rateLimitMap[Last.key].count = 1

\* C4: distinct identifiers never influence each other: the Map and every
\* decision are those of the run in which each handler invocation sees the
\* entry of its own key only.
C4_IdentifiersIndependent ==
    /\ solo.map = rateLimitMap
    /\ Answered => solo.did = <<Last.did>>

\* A request of one key is allowed while the other key sits at a full quota.
C4_Witness ==
    /\ Allowed
    /\ \E k \in DOMAIN rateLimitMap :
          /\ k # Last.key
          /\ rateLimitMap[k].count >= MaxQuota
          /\ ~Expired(rateLimitMap[k], clock)
    /\ Last.before # <<>>

\* C5: every invocation either calls next() once and writes no response, or
\* sends 429 with {error: 'Rate limit exceeded', message: the limiter's
\* message, retryAfter: an integer} and does not call next().
C5_AllowOrDeny ==
    Answered =>
        \/ /\ Last.did.next = 1
           /\ Last.did.status = 0
           /\ Last.did.body = <<>>
        \/ /\ Last.did.next = 0
           /\ Last.did.status = 429
           /\ Len(Last.did.body) = 1
           /\ DOMAIN Last.did.body[1] = {"error", "message", "retryAfter"}
           /\ Last.did.body[1].error = "Rate limit exceeded"
           /\ Last.did.body[1].message = Last.lim.message
           /\ Last.did.body[1].retryAfter \in Int

C5_Witness == Denied /\ Last.did.body[1].retryAfter = 1

\* C6 as claimed: the retry hint of a denial is
\* ceil((windowStart + W - now) / 1000) with W the window length of the
\* limiter that issued the denial.
C6_RetryUsesLimiterWindow ==
    Denied =>
        Last.did.body[1].retryAfter =
            Ceil(Last.before[1].firstRequest + Last.lim.windowMs - clock, 1000)

\* C8: the decisions (and retry hints) are those of the run without the
\* cleanup timer, and an entry the timer removed is expired in that run.
C8_SweepTransparent ==
    /\ Answered => nosweep.did = <<Last.did>>
    /\ \A k \in DOMAIN nosweep.map :
          IF Has(rateLimitMap, k) THEN rateLimitMap[k] = nosweep.map[k]
          ELSE Expired(nosweep.map[k], clock)
    /\ DOMAIN rateLimitMap \subseteq DOMAIN nosweep.map

\* A request whose entry the timer had removed, still present in the other run.
C8_Witness ==
    /\ Allowed
    /\ Last.before = <<>>
    /\ nosweep.before # <<>>
    /\ nosweep.before[1].count >= 2

(* ---- observers of one (limiter, key) pair, the probe: SpecProbe ----- *)

Pairs == [lim : Limiters, key : Keys]

NoIso == [entry |-> <<>>, did |-> <<>>]

\* Whether a request of key at now opens a new window (no entry, or an expired one).
OpensWindow(key, now) ==
    ~Has(rateLimitMap, key) \/ Expired(rateLimitMap[key], now)

Mine(lim, key) == lim = probe.lim /\ key = probe.key

\* The probe pair's entry in a store that only the probe's policy uses.
IsoMap == IF iso.entry = <<>> THEN EmptyMap ELSE [k \in {probe.key} |-> iso.entry[1]]

\* The last two retry hints of denials in the probe key's current window.
Push(hints, r) == IF hints = <<>> THEN <<r>> ELSE <<hints[Len(hints)], r>>

\* The probe pair's admissions in the key's current window.
TrackAdmitted(lim, key, now) ==
    IF key # probe.key
    THEN UNCHANGED admitted
    ELSE admitted' = (IF OpensWindow(key, now) THEN 0 ELSE admitted)
                        + (IF Mine(lim, key) /\ Handler(rateLimitMap, lim, key, now).did.next = 1
                           THEN 1 ELSE 0)

\* The cleanup timer removes the probe key's entry: its window is over.
Gone(now) == Has(rateLimitMap, probe.key) /\ Expired(rateLimitMap[probe.key], now)

ProbeInit ==
    /\ CoreInit
    /\ solo = NoRun
    /\ nosweep = NoRun
    /\ probe \in Pairs
    /\ issued = 0
    /\ admitted = 0
    /\ iso = NoIso
    /\ lastDeny = <<>>
    /\ log = <<>>

ProbeRequest ==
    \E lim \in Limiters, req \in Requests, now \in Times :
        /\ Middleware(lim, req, now)
        /\ res' = <<>>
        /\ TrackAdmitted(lim, KeyOf(req), now)
        /\ UNCHANGED <<solo, nosweep, probe, issued, iso, lastDeny, log>>

ProbeCleanup ==
    \E now \in Times :
        /\ Sweep(now)
        /\ admitted' = IF Gone(now) THEN 0 ELSE admitted
        /\ UNCHANGED <<solo, nosweep, probe, issued, iso, lastDeny, log>>

ProbeNext == ProbeRequest \/ ProbeCleanup

SpecProbe == ProbeInit /\ [][ProbeNext]_vars

\* C10: each invocation is one atomic step, and under every interleaving of
\* the requests of one identifier the requests a limiter admits in one window
\* exceed its quota by at most one.
C10_AtMostOneOverQuota == admitted <= probe.lim.max + 1

\* The probe limiter has admitted its full quota of two in one window.
C10_Witness ==
    /\ probe.lim.max = 2
    /\ admitted = 2
    /\ Has(rateLimitMap, probe.key)
    /\ rateLimitMap[probe.key].count = 2

(* ------ observer of one key's denials in its window: SpecDeny ------- *)

\* The retry hints of the denials in the probe key's current window.
TrackDeny(lim, key, now) ==
    LET h == Handler(rateLimitMap, lim, key, now)
    IN  IF key # probe.key
        THEN UNCHANGED lastDeny
        ELSE lastDeny' = IF OpensWindow(key, now) THEN <<>>
                         ELSE IF h.did.status = 429
                              THEN Push(lastDeny, h.did.body[1].retryAfter)
                              ELSE lastDeny

DenyInit ==
    /\ CoreInit
    /\ solo = NoRun
    /\ nosweep = NoRun
    /\ probe \in [key : Keys]
    /\ issued = 0
    /\ admitted = 0
    /\ iso = NoIso
    /\ lastDeny = <<>>
    /\ log = <<>>

DenyRequest ==
    \E lim \in Limiters, req \in Requests, now \in Times :
        /\ Middleware(lim, req, now)
        /\ res' = <<>>
        /\ TrackDeny(lim, KeyOf(req), now)
        /\ UNCHANGED <<solo, nosweep, probe, issued, admitted, iso, log>>

DenyCleanup ==
    \E now \in Times :
        /\ Sweep(now)
        /\ lastDeny' = IF Gone(now) THEN <<>> ELSE lastDeny
        /\ UNCHANGED <<solo, nosweep, probe, issued, admitted, iso, log>>

DenyNext == DenyRequest \/ DenyCleanup

SpecDeny == DenyInit /\ [][DenyNext]_vars

\* C7: the retry hint of a denial is >= 0, and of two denials of one
\* identifier in one window the later hint is not greater than the earlier.
C7_RetryNonNegativeMonotone ==
    /\ \A i \in 1 .. Len(lastDeny) : lastDeny[i] >= 0
    /\ Len(lastDeny) = 2 => lastDeny[2] <= lastDeny[1]

\* Two denials in one window, the later with a smaller hint.
C7_Witness == Len(lastDeny) = 2 /\ lastDeny[2] < lastDeny[1]

(* --- the probe pair against a store of its policy alone: SpecIso ---- *)

\* The requests of the probe pair since the key's window began, and the same
\* requests served from a store that only the probe's policy uses.
TrackIso(lim, key, now) ==
    LET hi == Handler(IsoMap, lim, key, now)
    IN  /\ issued' = (IF OpensWindow(key, now) THEN 0 ELSE issued)
                        + (IF Mine(lim, key) THEN 1 ELSE 0)
        /\ issued' <= MaxIssued
        /\ iso' = IF Mine(lim, key) THEN [entry |-> <<hi.map[key]>>, did |-> <<hi.did>>]
                  ELSE iso

IsoRequest ==
    \E lim \in Limiters, req \in Requests, now \in Times :
        /\ KeyOf(req) = probe.key
        /\ Middleware(lim, req, now)
        /\ IF Mine(lim, KeyOf(req)) THEN Observed(lim, req, now) ELSE res' = <<>>
        /\ TrackIso(lim, KeyOf(req), now)
        /\ UNCHANGED <<solo, nosweep, probe, admitted, lastDeny, log>>

IsoCleanup ==
    \E now \in Times :
        /\ Sweep(now)
        /\ issued' = IF Gone(now) THEN 0 ELSE issued
        /\ iso' = IF Has(SweepMap(IsoMap, now), probe.key) THEN iso
                  ELSE [entry |-> <<>>, did |-> iso.did]
        /\ UNCHANGED <<solo, nosweep, probe, admitted, lastDeny, log>>

IsoNext == IsoRequest \/ IsoCleanup

SpecIso == ProbeInit /\ [][IsoNext]_vars

\* C1 as claimed: of the requests an identifier issues through one limiter
\* (quota N >= 1, window W) inside one window, the first N are allowed and
\* every later one is denied.
C1_FirstNAllowedRestDenied ==
    (/\ Answered
     /\ probe.lim.max >= 1
     /\ clock - rateLimitMap[probe.key].firstRequest <= probe.lim.windowMs)
        => (Allowed <=> issued <= probe.lim.max)

\* C2 as claimed: the decisions a limiter gives an identifier are those of a
\* store that only the requests checked under its policy touch.
C2_PoliciesIndependent ==
    (Answered /\ probe.lim.max >= 1) => iso.did = <<Last.did>>

(* ---------------- the end-to-end example: SpecC9 -------------------- *)

\* rateLimit({ windowMs: 60000, max: 2 })
ExampleLimiter == rateLimit([windowMs |-> 60000, max |-> 2])

ExampleRequest == [ip |-> "X", remoteAddress |-> Undefined]

ExampleTimes == {0, 10000, 20000, 60000, 61000}

ExampleRun == <<0, 10000, 20000, 61000>>

ExampleInit ==
    /\ CoreInit
    /\ solo = NoRun
    /\ nosweep = NoRun
    /\ probe = <<>>
    /\ issued = 0
    /\ admitted = 0
    /\ iso = NoIso
    /\ lastDeny = <<>>
    /\ log = <<>>

ExampleCheck ==
    \E now \in ExampleTimes :
        /\ Len(log) < MaxLog
        /\ Middleware(ExampleLimiter, ExampleRequest, now)
        /\ Observed(ExampleLimiter, ExampleRequest, now)
        /\ log' = Append(log,
                    [now   |-> now,
                     did   |-> Handler(rateLimitMap, ExampleLimiter, "X", now).did,
                     entry |-> Handler(rateLimitMap, ExampleLimiter, "X", now).map["X"]])
        /\ UNCHANGED <<solo, nosweep, probe, issued, admitted, iso, lastDeny>>

ExampleCleanup ==
    \E now \in ExampleTimes :
        /\ Sweep(now)
        /\ UNCHANGED <<solo, nosweep, probe, issued, admitted, iso, lastDeny, log>>

ExampleNext == ExampleCheck \/ ExampleCleanup

SpecC9 == ExampleInit /\ [][ExampleNext]_vars

\* Whether the first n requests came at the times of the example.
FollowsExample(n) ==
    /\ n <= Len(log)
    /\ n <= Len(ExampleRun)
    /\ \A i \in 1 .. n : log[i].now = ExampleRun[i]

\* C9: with {windowMs: 60000, max: 2} and a fresh store, requests of X at
\* 0, 10 s, 20 s and 61 s give Allow (count 1), Allow (count 2), Deny with
\* retryAfter 40, Allow (count 1, window starting at 61 s).
C9_EndToEndExample ==
    /\ FollowsExample(1) =>
          log[1].did = CallNext /\ log[1].entry.count = 1
    /\ FollowsExample(2) =>
          log[2].did = CallNext /\ log[2].entry.count = 2
    /\ FollowsExample(3) =>
          /\ log[3].did.next = 0
          /\ log[3].did.status = 429
          /\ log[3].did.body[1].retryAfter = 40
    /\ FollowsExample(4) =>
          /\ log[4].did = CallNext
          /\ log[4].entry.count = 1
          /\ log[4].entry.firstRequest = 61000

C9_Witness == FollowsExample(4)

(* ------------------ further claims under Spec ----------------------- *)

\* C11 as claimed: a policy with a zero or negative window or quota is
\* rejected when rateLimit(options) builds the limiter, so no request is ever
\* decided under such a policy.
C11_NoDecisionUnderBadPolicy ==
    Answered => (Last.lim.max >= 1 /\ Last.lim.windowMs >= 1)

\* C18: an entry's count grows only by one, in a step at a time now with
\* now - windowStart <= windowLength of that entry; an entry that is expired
\* at the time of a step is left alone, replaced by a fresh entry (count 1,
\* windowStart = now) or removed.
C18_IncrementOnlyInWindow ==
    [][\A k \in DOMAIN rateLimitMap :
          LET d == rateLimitMap[k]
          IN  /\ (k \in DOMAIN rateLimitMap' /\ rateLimitMap'[k].count > d.count) =>
                    /\ clock' - d.firstRequest <= d.windowMs
                    /\ rateLimitMap'[k] = [d EXCEPT !.count = d.count + 1]
              /\ (clock' - d.firstRequest > d.windowMs) =>
                    \/ k \notin DOMAIN rateLimitMap'
                    \/ rateLimitMap'[k] = d
                    \/ /\ rateLimitMap'[k].count = 1
                       /\ rateLimitMap'[k].firstRequest = clock']_vars

\* An entry was incremented at the last instant of its window.
C18_Witness ==
    /\ Allowed /\ Last.before # <<>>
    /\ rateLimitMap[Last.key].count = Last.before[1].count + 1
    /\ clock - Last.before[1].firstRequest = Last.before[1].windowMs

\* C20: a sweep at time now removes exactly the entries with
\* now - windowStart > windowLength: no expired entry remains after it, and
\* every entry whose window is current stays as it was.
C20_SweepRemovesExactlyExpired ==
    [][res' = <<>> =>
          /\ DOMAIN rateLimitMap' \subseteq DOMAIN rateLimitMap
          /\ \A k \in DOMAIN rateLimitMap :
                IF clock' - rateLimitMap[k].firstRequest > rateLimitMap[k].windowMs
                THEN k \notin DOMAIN rateLimitMap'
                ELSE k \in DOMAIN rateLimitMap' /\ rateLimitMap'[k] = rateLimitMap[k]]_vars

\* A sweep has just removed one key's entry and kept a throttled one.
C20_Witness ==
    /\ res = <<>>
    /\ DOMAIN nosweep.map \ DOMAIN rateLimitMap # {}
    /\ \E k \in DOMAIN rateLimitMap : rateLimitMap[k].count >= MaxQuota

(* -------- requests without a resolvable identifier: SpecAnon -------- *)

\* req.ip is set or not; req.connection.remoteAddress is missing.
AnonRequests ==
    {[ip |-> "ip1", remoteAddress |-> Undefined],
     [ip |-> Undefined, remoteAddress |-> Undefined]}

Anonymous(req) == req.ip = Undefined /\ req.remoteAddress = Undefined

\* Whether the entry kept under the key undefined is missing or over at now.
AnonWindowOver(now) ==
    \/ Undefined \notin DOMAIN rateLimitMap
    \/ now - rateLimitMap[Undefined].firstRequest > rateLimitMap[Undefined].windowMs

AnonInit ==
    /\ CoreInit
    /\ solo = NoRun
    /\ nosweep = NoRun
    /\ probe = <<>>
    /\ issued = 0
    /\ admitted = 0
    /\ iso = NoIso
    /\ lastDeny = <<>>
    /\ log = <<>>

\* A request; admitted counts the anonymous requests that reached next() in
\* the current window of the key undefined, and log holds the request.
AnonRequest ==
    \E lim \in Limiters, req \in AnonRequests, now \in Times :
        /\ Middleware(lim, req, now)
        /\ Observed(lim, req, now)
        /\ log' = <<req>>
        /\ admitted' = IF Anonymous(req)
                       THEN (IF AnonWindowOver(now) THEN 0 ELSE admitted)
                                + Handler(rateLimitMap, lim, KeyOf(req), now).did.next
                       ELSE admitted
        /\ UNCHANGED <<solo, nosweep, probe, issued, iso, lastDeny>>

AnonCleanup ==
    \E now \in Times :
        /\ Sweep(now)
        /\ log' = <<>>
        /\ admitted' = IF AnonWindowOver(now) THEN 0 ELSE admitted
        /\ UNCHANGED <<solo, nosweep, probe, issued, iso, lastDeny>>

AnonNext == AnonRequest \/ AnonCleanup

SpecAnon == AnonInit /\ [][AnonNext]_vars

\* C12: every request gets a decision (next() or the 429), also one with
\* neither req.ip nor a remote address, and all such requests are counted
\* under the one key undefined.
C12_AnonymousDecidedUnderOneKey ==
    /\ log # <<>> =>
          /\ Answered
          /\ \/ Last.did = CallNext
             \/ Last.did.next = 0 /\ Last.did.status = 429
          /\ Anonymous(log[1]) => Last.key = Undefined
    /\ Undefined \in DOMAIN rateLimitMap =>
          rateLimitMap[Undefined].count = admitted

\* An anonymous request is denied: the anonymous requests before it used up the quota.
C12_Witness ==
    /\ log # <<>> /\ Anonymous(log[1])
    /\ Denied
    /\ admitted = 2

(* ---- a long-window limiter beside a short-window one: SpecBurst ---- *)

\* Two limiters on one caller, scaled from generalRateLimit (long window)
\* and uploadRateLimit (short window).
LongLimiter == rateLimit([windowMs |-> 3000, max |-> 3])

ShortLimiter == rateLimit([windowMs |-> 500, max |-> 1])

BurstRequest == [ip |-> "ip1", remoteAddress |-> "ip2"]

BurstTimes == {0, 1000, 2000, 3000}

BurstInit ==
    /\ CoreInit
    /\ solo = NoRun
    /\ nosweep = NoRun
    /\ probe = <<>>
    /\ issued = 0
    /\ admitted = 0
    /\ iso = NoIso
    /\ lastDeny = <<>>
    /\ log = <<>>

\* A request through one of the two limiters; log holds the times at which
\* the long-window limiter let a request through.
BurstCheck ==
    \E lim \in {LongLimiter, ShortLimiter}, now \in BurstTimes :
        /\ Middleware(lim, BurstRequest, now)
        /\ Observed(lim, BurstRequest, now)
        /\ log' = IF lim = LongLimiter
                     /\ Handler(rateLimitMap, lim, KeyOf(BurstRequest), now).did.next = 1
                  THEN Append(log, now)
                  ELSE log
        /\ UNCHANGED <<solo, nosweep, probe, issued, admitted, iso, lastDeny>>

BurstCleanup ==
    \E now \in BurstTimes :
        /\ Sweep(now)
        /\ UNCHANGED <<solo, nosweep, probe, issued, admitted, iso, lastDeny, log>>

BurstNext == BurstCheck \/ BurstCleanup

SpecBurst == BurstInit /\ [][BurstNext]_vars

\* C13 as claimed: the requests a limiter with window W and quota N admits
\* for one identifier in any time interval of length W number at most 2 * N.
C13_AtMostTwiceQuotaPerWindow ==
    \A i \in 1 .. Len(log) : \A j \in i .. Len(log) :
        log[j] - log[i] <= LongLimiter.windowMs => j - i + 1 <= 2 * LongLimiter.max

(* --------------- the exported limiters: SpecDeployed ---------------- *)

authRateLimit ==
    rateLimit([windowMs |-> 15 * 60 * 1000,
               max      |-> 100,
               message  |-> "Too many authentication attempts, please try again later."])

uploadRateLimit ==
    rateLimit([windowMs |-> 60 * 1000,
               max      |-> 50,
               message  |-> "Too many file uploads, please try again later."])

generalRateLimit ==
    rateLimit([windowMs |-> 15 * 60 * 1000,
               max      |-> 100,
               message  |-> "Too many requests, please try again later."])

\* rateLimit() with no options
plainRateLimit == rateLimit(EmptyMap)

Exported == {authRateLimit, uploadRateLimit, generalRateLimit, plainRateLimit}

DeployedRequest == [ip |-> "ip1", remoteAddress |-> "ip2"]

DeployedTimes == {0, 60000, 60001, 900000, 900001}

DeployedInit ==
    /\ CoreInit
    /\ solo = NoRun
    /\ nosweep = NoRun
    /\ probe = <<>>
    /\ issued = 0
    /\ admitted = 0
    /\ iso = NoIso
    /\ lastDeny = <<>>
    /\ log = <<>>

DeployedCheck ==
    \E lim \in Exported, now \in DeployedTimes :
        /\ Middleware(lim, DeployedRequest, now)
        /\ Observed(lim, DeployedRequest, now)
        /\ UNCHANGED <<solo, nosweep, probe, issued, admitted, iso, lastDeny, log>>

DeployedCleanup ==
    \E now \in DeployedTimes :
        /\ Sweep(now)
        /\ UNCHANGED <<solo, nosweep, probe, issued, admitted, iso, lastDeny, log>>

DeployedNext == DeployedCheck \/ DeployedCleanup

SpecDeployed == DeployedInit /\ [][DeployedNext]_vars

\* The policy the claim gives the limiter that answers with this message.
Configured(message) ==
    IF message = "Too many file uploads, please try again later."
    THEN [windowMs |-> 60000, max |-> 50]
    ELSE [windowMs |-> 900000, max |-> 100]

\* C19: general, auth and the limiter made with no options work with
\* (15 min, 100) and upload with (1 min, 50), at every request: a window a
\* limiter opens has its configured length, it denies only at a count that
\* has reached its configured quota and counts a request only below it.
C19_ConfiguredPolicies ==
    Answered =>
        LET p      == Configured(Last.lim.message)
            opened == \/ Last.before = <<>>
                      \/ clock - Last.before[1].firstRequest > Last.before[1].windowMs
        IN  /\ Last.lim.windowMs = p.windowMs
            /\ Last.lim.max = p.max
            /\ opened => rateLimitMap[Last.key].windowMs = p.windowMs
            /\ Denied => Last.before[1].count >= p.max
            /\ (Allowed /\ ~opened) => Last.before[1].count < p.max

\* The upload limiter denies the request that finds the count at 50.
C19_Witness ==
    /\ Denied
    /\ Last.lim.message = "Too many file uploads, please try again later."
    /\ Last.before[1].count = 50

(* ==================================================================== *)
(* The health routes (backend/routes/health.js).  A request reaches its *)
(* handler after authenticateToken (and requireAdmin on the DELETE      *)
(* routes) let it through, so it carries req.user.family_id.  The three *)
(* GET routes guarded by authorizeOwnDataOrAdmin alone have no          *)
(* ownership test in this file and are not modelled.                    *)
(* ==================================================================== *)

\* A health run receives at most this many requests.
MaxSerial == 3

\* The family_members table, id -> family_id; these routes only read it.
family_members == ("m1" :> "f1") @@ ("m2" :> "f2")

Members == DOMAIN family_members

Families == {family_members[m] : m \in Members}

VitalRoutes == {"POST /vitals", "PUT /vitals/:vitalId", "DELETE /vitals/:vitalId"}

ReportRoutes ==
    {"POST /reports", "PUT /reports/:reportId", "DELETE /reports/:reportId",
     "GET /reports/:reportId/view", "GET /reports/:reportId/download"}

DocumentRoutes ==
    {"GET /documents/:memberId", "POST /documents/:memberId", "GET /documents/file/:documentId",
     "PUT /documents/:documentId", "DELETE /documents/:documentId"}

HealthRoutes == VitalRoutes \cup ReportRoutes \cup DocumentRoutes

\* The table a route's statements work on.
TableOf(route) ==
    IF route \in VitalRoutes THEN "health_vitals"
    ELSE IF route \in ReportRoutes THEN "medical_reports" ELSE "documents"

\* The routes with upload.single('file') in their middleware chain.
UploadRoutes ==
    {"POST /reports", "PUT /reports/:reportId", "POST /documents/:memberId",
     "PUT /documents/:documentId"}

\* The routes that take a member id and look it up in family_members.
MemberRoutes ==
    {"POST /vitals", "POST /reports", "GET /documents/:memberId", "POST /documents/:memberId"}

CreateRoutes == {"POST /vitals", "POST /reports", "POST /documents/:memberId"}

UpdateRoutes == {"PUT /vitals/:vitalId", "PUT /reports/:reportId", "PUT /documents/:documentId"}

DeleteRoutes ==
    {"DELETE /vitals/:vitalId", "DELETE /reports/:reportId", "DELETE /documents/:documentId"}

\* The routes that send a stored file.
FileRoutes ==
    {"GET /reports/:reportId/view", "GET /reports/:reportId/download",
     "GET /documents/file/:documentId"}

\* The routes that take a record id and join the record with family_members.
RecordRoutes == UpdateRoutes \cup DeleteRoutes \cup FileRoutes

\* The error of a route's "not found" answer.
NotFound(route) ==
    IF route \in VitalRoutes THEN "Vital not found"
    ELSE IF route \in ReportRoutes THEN "Report not found" ELSE "Document not found"

\* The (vitalType, value, unit) a request body can carry (a request's vital is <<>>
\* when its body has none of them).
VitalBodies ==
    {[vital_type |-> "weight", value |-> 70, unit |-> "kg"],
     [vital_type |-> "weight", value |-> 71, unit |-> "kg"]}

\* Date.now() and the database's NOW() during a health run.
HealthTimes == {0, 4999, 5000, 5001}

\* The record ids a request can name on a route: those of the table's rows, and none.
Targets(route) == {r.id : r \in tables[TableOf(route)]} \cup {0}

\* The requests of one route that pass its express-validator chain: who asks, for
\* which member or record, and with what body.
WellFormed(route) ==
    [route     : {route},
     family_id : Families,
     memberId  : IF route \in MemberRoutes THEN Members ELSE {Undefined},
     id        : IF route \in RecordRoutes THEN Targets(route) ELSE {0},
     valid     : {TRUE},
     file      : IF route \in UploadRoutes THEN {0, 1} ELSE {0},
     vital     : IF route = "POST /vitals" THEN {<<b>> : b \in VitalBodies}
                 ELSE IF route = "PUT /vitals/:vitalId"
                 THEN {<<>>, <<CHOOSE b \in VitalBodies : b.value = 71>>}
                 ELSE {<<>>},
     title     : IF route \in {"PUT /reports/:reportId", "PUT /documents/:documentId"}
                 THEN {Undefined, "t2"} ELSE {Undefined}]

\* The requests of one route that fail its validator chain (the routes without a
\* body have none); what else such a request carries makes no difference but its file.
Malformed(route) ==
    IF route \notin CreateRoutes \cup UpdateRoutes THEN {}
    ELSE [route     : {route},
          family_id : {"f1"},
          memberId  : {Undefined},
          id        : {0},
          valid     : {FALSE},
          file      : IF route \in UploadRoutes THEN {0, 1} ELSE {0},
          vital     : {<<>>},
          title     : {Undefined}]

RequestsOf(route) == WellFormed(route) \cup Malformed(route)

(* ------------------------ health: queries --------------------------- *)

\* SELECT id FROM family_members WHERE id = $1 AND family_id = $2 has a row.
MemberOfFamily(memberId, family_id) ==
    memberId \in DOMAIN family_members /\ family_members[memberId] = family_id

\* SELECT ... FROM <table> JOIN family_members fm ... WHERE id = $1 AND fm.family_id = $2.
OwnedRows(rows, id, family_id) ==
    {r \in rows : r.id = id /\ MemberOfFamily(r.member_id, family_id)}

\* Faulty variant: a vital created exactly five seconds ago still counts.
DuplicatesAtBoundary(rows, memberId, vital, fiveSecondsAgo) ==
    {r \in rows : /\ r.member_id = memberId
                  /\ r.vital_type = vital.vital_type
                  /\ r.value = vital.value
                  /\ r.unit = vital.unit
                  /\ r.created_at >= fiveSecondsAgo}

\* SELECT id FROM health_vitals WHERE member_id = $1 AND vital_type = $2 AND value = $3
\* AND unit = $4 AND created_at > $5.
Duplicates(rows, memberId, vital, fiveSecondsAgo) ==
    {r \in rows : /\ r.member_id = memberId
                  /\ r.vital_type = vital.vital_type
                  /\ r.value = vital.value
                  /\ r.unit = vital.unit
                  /\ r.created_at > fiveSecondsAgo}

\* Faulty variant: every failed ownership test answers 403.
DenialAlways403(route) == [status |-> 403, error |-> "Access denied"]

\* What a handler answers when its ownership query returns no row.
Denial(route) ==
    IF route \in MemberRoutes
    THEN [status |-> 403, error |-> "Access denied"]
    ELSE [status |-> 404, error |-> NotFound(route)]

\* The row an INSERT of the handler h adds; created_at is the database's clock.
Inserted(h, now) ==
    IF h.route = "POST /vitals"
    THEN [id |-> h.n, member_id |-> h.memberId, vital_type |-> h.vital[1].vital_type,
          value |-> h.vital[1].value, unit |-> h.vital[1].unit, created_at |-> now]
    ELSE [id |-> h.n, member_id |-> h.memberId, title |-> "t1", file_path |-> h.file]

\* The row an UPDATE ... SET <the fields the request carries> of the handler h leaves.
Updated(h, r) ==
    IF h.route = "PUT /vitals/:vitalId"
    THEN [r EXCEPT !.vital_type = h.vital[1].vital_type, !.value = h.vital[1].value,
                   !.unit = h.vital[1].unit]
    ELSE [r EXCEPT !.title = IF h.title # Undefined THEN h.title ELSE @,
                   !.file_path = IF h.file # 0 THEN h.file ELSE @]

(* ------------------------ health: handlers -------------------------- *)

\* The handler in slot s.
Running(s) == active[s][1]

\* The handler in slot s waits for the query named pc.
Awaits(s, pc) == active[s] # <<>> /\ Running(s).pc = pc

\* res.status(status).json(...) or res.sendFile(...), which ends the handler in slot s.
Respond(s, h, status, error, body) ==
    /\ active' = [active EXCEPT ![s] = <<>>]
    /\ sent' = <<[req |-> h, status |-> status, error |-> error, body |-> body]>>

\* The handler in slot s goes on to await the query named pc.
Await(s, h, pc) ==
    /\ active' = [active EXCEPT ![s] = <<[h EXCEPT !.pc = pc]>>]
    /\ sent' = <<>>

\* A request arrives and takes the first free slot: multer stores its file under a fresh
\* name, then the handler runs up to its first query.
Receive(s, rq) ==
    /\ active[s] = <<>>
    /\ \A other \in Slots : active[other] = <<>> => s <= other
    /\ serial < MaxSerial
    /\ LET n       == serial + 1
           stored  == rq.route \in UploadRoutes /\ rq.file # 0
           h       == [route |-> rq.route, family_id |-> rq.family_id, memberId |-> rq.memberId,
                       id |-> rq.id, valid |-> rq.valid, vital |-> rq.vital, title |-> rq.title,
                       file |-> IF stored THEN n ELSE 0,
                       n |-> n, pc |-> "start", fiveSecondsAgo |-> 0, old |-> 0]
       IN  /\ serial' = n
           /\ uploads' = IF stored THEN uploads \cup {n} ELSE uploads
           /\ IF ~h.valid
              THEN Respond(s, h, 400, "Validation failed", <<>>)
              ELSE IF h.route \in {"POST /reports", "POST /documents/:memberId"} /\ h.file = 0
              THEN Respond(s, h, 400, "File required", <<>>)
              ELSE Await(s, h, IF h.route \in MemberRoutes THEN "memberCheck" ELSE "checkResult")
    /\ UNCHANGED <<tables, clock, limiterVars>>

\* memberCheck returns; a POST /vitals handler then reads Date.now().
MemberChecked(s) ==
    /\ Awaits(s, "memberCheck")
    /\ LET h == Running(s)
       IN  IF ~MemberOfFamily(h.memberId, h.family_id)
           THEN Respond(s, h, Denial(h.route).status, Denial(h.route).error, <<>>)
           ELSE IF h.route = "POST /vitals"
           THEN Await(s, [h EXCEPT !.fiveSecondsAgo = clock - 5000], "duplicateCheck")
           ELSE IF h.route = "GET /documents/:memberId"
           THEN Await(s, h, "select")
           ELSE Await(s, h, "insert")
    /\ UNCHANGED <<tables, uploads, serial, clock, limiterVars>>


\* checkResult returns: the record joined with the requester's family, or no row.
CheckResult(s) ==
    /\ Awaits(s, "checkResult")
    /\ LET h    == Running(s)
           rows == OwnedRows(tables[TableOf(h.route)], h.id, h.family_id)
           row  == CHOOSE r \in rows : TRUE
       IN  IF rows = {}
           THEN /\ Respond(s, h, Denial(h.route).status, Denial(h.route).error, <<>>)
                /\ UNCHANGED uploads
           ELSE IF h.route \in FileRoutes
           THEN /\ UNCHANGED uploads
                /\ IF row.file_path \notin uploads
                   THEN Respond(s, h, 404, "File not found", <<>>)
                   ELSE Respond(s, h, 200, "", <<row>>)
           ELSE IF h.route = "DELETE /vitals/:vitalId"
           THEN /\ UNCHANGED uploads
                /\ Await(s, h, "delete")
           ELSE IF h.route \in DeleteRoutes
           THEN /\ uploads' = uploads \ {row.file_path}
                /\ Await(s, h, "delete")
           ELSE IF h.route = "PUT /vitals/:vitalId"
           THEN /\ UNCHANGED uploads
                /\ IF h.vital = <<>>
                   THEN Respond(s, h, 400, "No fields to update", <<>>)
                   ELSE Await(s, h, "update")
           ELSE /\ uploads' = IF h.file # 0 THEN uploads \ {row.file_path} ELSE uploads
                /\ IF h.title = Undefined /\ h.file = 0
                   THEN Respond(s, h, 400, "No fields to update", <<>>)
                   ELSE Await(s, [h EXCEPT !.old = row.file_path], "update")
    /\ UNCHANGED <<tables, serial, clock, limiterVars>>

\* duplicateCheck returns (POST /vitals).
DuplicateCheck(s) ==
    /\ Awaits(s, "duplicateCheck")
    /\ LET h == Running(s)
       IN  IF Duplicates(tables.health_vitals, h.memberId, h.vital[1], h.fiveSecondsAgo) # {}
           THEN Respond(s, h, 409, "Duplicate submission", <<>>)
           ELSE Await(s, h, "insert")
    /\ UNCHANGED <<tables, uploads, serial, clock, limiterVars>>

\* INSERT INTO ... RETURNING returns.
Insert(s) ==
    /\ Awaits(s, "insert")
    /\ LET h   == Running(s)
           row == Inserted(h, clock)
       IN  /\ tables' = [tables EXCEPT ![TableOf(h.route)] = @ \cup {row}]
           /\ Respond(s, h, 201, "", <<row>>)
    /\ UNCHANGED <<uploads, serial, clock, limiterVars>>

\* UPDATE ... WHERE id = $n RETURNING returns; result.rows[0] is absent if no row has the id.
Update(s) ==
    /\ Awaits(s, "update")
    /\ LET h    == Running(s)
           hit  == {r \in tables[TableOf(h.route)] : r.id = h.id}
       IN  /\ tables' = [tables EXCEPT ![TableOf(h.route)] =
                            (@ \ hit) \cup {Updated(h, r) : r \in hit}]
           /\ Respond(s, h, 200, "", IF hit = {} THEN <<>>
                                     ELSE <<Updated(h, CHOOSE r \in hit : TRUE)>>)
    /\ UNCHANGED <<uploads, serial, clock, limiterVars>>

\* DELETE FROM ... WHERE id = $1 returns.
Delete(s) ==
    /\ Awaits(s, "delete")
    /\ LET h == Running(s)
       IN  /\ tables' = [tables EXCEPT ![TableOf(h.route)] = {r \in @ : r.id # h.id}]
           /\ Respond(s, h, 200, "", <<>>)
    /\ UNCHANGED <<uploads, serial, clock, limiterVars>>

\* SELECT ... FROM documents WHERE member_id = $1 returns (GET /documents/:memberId).
Select(s) ==
    /\ Awaits(s, "select")
    /\ LET h == Running(s)
       IN  Respond(s, h, 200, "", {r \in tables.documents : r.member_id = h.memberId})
    /\ UNCHANGED <<tables, uploads, serial, clock, limiterVars>>

\* The query a handler awaits rejects (the pool gives no connection, a statement fails):
\* the handler's catch answers 500.
QueryFails(s) ==
    /\ active[s] # <<>>
    /\ Respond(s, Running(s), 500, "Failed", <<>>)
    /\ UNCHANGED <<tables, uploads, serial, clock, limiterVars>>

\* Time passes.
Tick(now) ==
    /\ now > clock
    /\ clock' = now
    /\ sent' = <<>>
    /\ UNCHANGED <<tables, uploads, active, serial, limiterVars>>

(* ------------------------ health: specification --------------------- *)

\* Requests for the given routes by users of the given families arrive and are served
\* in the given slots.
ArriveOn(slots, routes, families) ==
    \E s \in slots, route \in routes :
        \E rq \in RequestsOf(route) : rq.family_id \in families /\ Receive(s, rq)

Reject == \E s \in Slots : QueryFails(s)

Pass == \E now \in HealthTimes : Tick(now)

\* Every health route, one request at a time.
Arrive == ArriveOn({1}, HealthRoutes, Families)

Return ==
    \E s \in Slots :
        \/ MemberChecked(s)
        \/ CheckResult(s)
        \/ DuplicateCheck(s)
        \/ Insert(s)
        \/ Update(s)
        \/ Delete(s)
        \/ Select(s)

HealthNext == Arrive \/ Return \/ Reject

SpecHealth == Init /\ [][HealthNext]_vars

\* POST /vitals alone, by users of one family, two requests in flight, while time passes.
VitalArrive == ArriveOn(Slots, {"POST /vitals"}, {"f1"})

VitalReturn ==
    \E s \in Slots :
        \/ MemberChecked(s)
        \/ DuplicateCheck(s)
        \/ Insert(s)

VitalsNext == VitalArrive \/ VitalReturn \/ Reject \/ Pass

SpecVitals == Init /\ [][VitalsNext]_vars


(* ---------------------- claims about the health routes -------------- *)

\* The response reply (a value of sent) is one of the given route and status.
Is(reply, route, status) ==
    reply # <<>> /\ reply[1].req.route = route /\ reply[1].status = status

\* The latest step sent a response of the given route and status.
Sent(route, status) == Is(sent, route, status)

\* The query the handler in slot s awaited has returned, and not with an error.
Returned(s, pc) ==
    /\ Awaits(s, pc)
    /\ active'[s] # active[s]
    /\ ~(sent' # <<>> /\ sent'[1].status = 500)

\* The vitals that carry the handler's (memberId, vitalType, value, unit) and were
\* created less than five seconds before the handler read the clock.
RecentSame(rows, h) ==
    {r \in rows : /\ r.member_id = h.memberId
                  /\ r.vital_type = h.vital[1].vital_type
                  /\ r.value = h.vital[1].value
                  /\ r.unit = h.vital[1].unit
                  /\ (h.fiveSecondsAgo + 5000) - r.created_at < 5000}

ReplacesFile(h) ==
    h.route \in {"PUT /reports/:reportId", "PUT /documents/:documentId"} /\ h.file # 0

\* C14: an update of a report or a document with a new file runs its UPDATE first and
\* deletes the previously stored file only after the UPDATE succeeded: while the UPDATE
\* is awaited the previous file is on disk, and when the UPDATE fails (500) the previous
\* file is still on disk and still referenced by the row.
C14_UpdateBeforeUnlink ==
    /\ \A s \in Slots :
          (Awaits(s, "update") /\ ReplacesFile(Running(s))) => Running(s).old \in uploads
    /\ (sent # <<>> /\ sent[1].status = 500 /\ sent[1].req.pc = "update"
           /\ ReplacesFile(sent[1].req)) =>
          /\ sent[1].req.old \in uploads
          /\ \E r \in tables[TableOf(sent[1].req.route)] :
                r.id = sent[1].req.id /\ r.file_path = sent[1].req.old


\* The handler h was at its ownership query, and what it names belongs to a member of
\* another family than the requester's.
CrossFamily(h) ==
    IF h.route \in MemberRoutes
    THEN h.pc = "memberCheck" /\ family_members[h.memberId] # h.family_id
    ELSE /\ h.pc = "checkResult"
         /\ \E r \in tables[TableOf(h.route)] :
               r.id = h.id /\ family_members[r.member_id] # h.family_id

\* The latest step answered a request for another family's data, and not because a
\* query failed.
CrossFamilyAnswered == sent # <<>> /\ sent[1].status # 500 /\ CrossFamily(sent[1].req)

\* C17: a request that names a member of another family (POST /vitals, POST /reports,
\* GET and POST /documents/:memberId) is answered 403 Access denied; a request that names
\* a record of another family by the record's id (update, delete, view, download of a
\* vital, a report or a document) is answered 404 with the route's not-found error.
C17_CrossFamilyDeniedPerRoute ==
    CrossFamilyAnswered =>
        IF sent[1].req.route \in MemberRoutes
        THEN sent[1].status = 403 /\ sent[1].error = "Access denied"
        ELSE sent[1].status = 404 /\ sent[1].error = NotFound(sent[1].req.route)

\* An update of a report of the other family is answered 404 while the report exists.
C17_Witness ==
    /\ CrossFamilyAnswered
    /\ Sent("PUT /reports/:reportId", 404)
    /\ tables.medical_reports # {}

\* C17 as stated: every request for another family's data is answered 403 Access denied.
C17_CrossFamilyAlways403 ==
    CrossFamilyAnswered => sent[1].status = 403 /\ sent[1].error = "Access denied"


\* The handler h is at its ownership query and the query will return no row: the member,
\* or the record's member, is not of the requester's family.
NotOwner(h) ==
    \/ h.pc = "memberCheck" /\ ~MemberOfFamily(h.memberId, h.family_id)
    \/ h.pc = "checkResult" /\ OwnedRows(tables[TableOf(h.route)], h.id, h.family_id) = {}

\* The response reply (a value of sent) is the answer to a failed ownership query.
IsDenial(reply) ==
    /\ reply # <<>>
    /\ reply[1].req.pc \in {"memberCheck", "checkResult"}
    /\ reply[1].status = Denial(reply[1].req.route).status
    /\ reply[1].error = Denial(reply[1].req.route).error

\* C16: the ownership query comes before every read and write, so a handler whose query
\* finds no row of the requester's family changes no row, removes no file and returns no
\* content; it ends with an error response, and the request leaves nothing behind among
\* the stored files.
C16_OwnershipBeforeEffect ==
    [][/\ \A s \in Slots :
             (active[s] # <<>> /\ active'[s] # active[s] /\ NotOwner(Running(s))) =>
                 /\ tables' = tables
                 /\ uploads' = uploads
                 /\ sent' # <<>>
                 /\ sent'[1].status \in {403, 404, 500}
                 /\ sent'[1].body = <<>>
       /\ IsDenial(sent') => sent'[1].req.file \notin uploads']_vars


(* ==================================================================== *)
(* The account routes (backend/routes/auth.js): POST /register and      *)
(* POST /login.  Handlers run in the same slots and answer through the  *)
(* same observer as the health handlers.                                *)
(* ==================================================================== *)

Emails == {"ann@x.org", "bob@x.org"}

Passwords == {"secret1", "secret2"}

\* bcrypt.hash(password, 12): a digest that is not the password.
BcryptHash(password) == <<"$2a$12$", password>>

\* bcrypt.compare(password, hash).
BcryptCompare(password, hash) == hash = BcryptHash(password)

\* jwt.sign(payload, JWT_SECRET, ...).
JwtSign(payload) == <<"jwt", payload>>

\* The rows a completed registration number n leaves.
FamilyRow(n, h) == [id |-> n, name |-> h.familyName]

UserRow(n, h, familyId) ==
    [id |-> n, email |-> h.email, password |-> BcryptHash(h.password),
     family_id |-> familyId, role |-> "admin"]

ProfileRow(n, familyId, userId) == [id |-> n, family_id |-> familyId, user_id |-> userId]

\* The account tables after ann@x.org registered the family "Lee" with "secret1".
Registered ==
    LET h == [email |-> "ann@x.org", password |-> "secret1", familyName |-> "Lee"]
    IN  [NoRows EXCEPT !.families = {FamilyRow(1, h)},
                       !.users = {UserRow(1, h, 1)},
                       !.profiles = {ProfileRow(1, 1, 1)}]

\* Date.now() during a run of logins: the start, the last millisecond of the auth
\* window that began at 0, and the first millisecond after it.
LoginTimes == {0, 900000, 900001}

\* The POST /login requests: one caller address, any credentials, a body that passes
\* the validator chain or not.
LoginRequests ==
    [route : {"POST /login"}, ip : {"ip1"}, remoteAddress : {"ip2"},
     email : Emails, password : Passwords, valid : BOOLEAN]

\* Faulty variant: an unknown email is told apart.
UnknownEmailAnswerNotFound ==
    [status |-> 404, error |-> "User not found", message |-> "No account has this email"]

\* The answer for an email no user has.
UnknownEmailAnswer ==
    [status |-> 401, error |-> "Invalid credentials",
     message |-> "Email or password is incorrect"]

\* The answer for a password that does not match the stored hash.
WrongPasswordAnswer ==
    [status |-> 401, error |-> "Invalid credentials",
     message |-> "Email or password is incorrect"]

\* The observers a login leaves alone.
loginFrame == <<res, solo, nosweep, probe, issued, admitted, iso, lastDeny>>


(* ------------------------------ login ------------------------------- *)

\* A POST /login request arrives at Date.now() = now: authRateLimit runs first; if it
\* calls next, the validators and the handler run up to the user lookup.
LoginReceive(s, rq, now) ==
    /\ active[s] = <<>>
    /\ \A other \in Slots : active[other] = <<>> => s <= other
    /\ now >= clock
    /\ clock' = now
    /\ LET run == Handler(rateLimitMap, authRateLimit, KeyOf(rq), now)
           h   == [route |-> rq.route, email |-> rq.email, password |-> rq.password,
                   valid |-> rq.valid, denied |-> run.did.status = 429, reached |-> {},
                   pc |-> "start", user |-> <<>>]
       IN  /\ rateLimitMap' = run.map
           /\ IF run.did.next # 1
              THEN /\ sent' = <<[req |-> h, status |-> run.did.status,
                                 error |-> "Rate limit exceeded", body |-> run.did.body]>>
                   /\ UNCHANGED active
              ELSE IF ~h.valid
              THEN Respond(s, [h EXCEPT !.reached = {"validation"}], 400,
                           "Validation failed", <<>>)
              ELSE Await(s, [h EXCEPT !.reached = {"validation", "lookup"}], "userResult")
    /\ UNCHANGED <<tables, uploads, serial, log, loginFrame>>

\* The user lookup returns.
LoginUserResult(s) ==
    /\ Awaits(s, "userResult")
    /\ LET h    == Running(s)
           rows == {u \in tables.users : u.email = h.email}
       IN  IF rows = {}
           THEN /\ Respond(s, h, UnknownEmailAnswer.status, UnknownEmailAnswer.error,
                           <<UnknownEmailAnswer.message>>)
                /\ log' = log \cup {[kind |-> "unknown email", status |-> sent'[1].status,
                                     error |-> sent'[1].error, body |-> sent'[1].body]}
           ELSE /\ Await(s, [h EXCEPT !.reached = @ \cup {"compare"},
                                      !.user = <<CHOOSE u \in rows : TRUE>>],
                         "isValidPassword")
                /\ UNCHANGED log
    /\ UNCHANGED <<tables, uploads, serial, clock, rateLimitMap, loginFrame>>

\* bcrypt.compare returns; a match is answered with a signed token.
LoginCompared(s) ==
    /\ Awaits(s, "isValidPassword")
    /\ LET h    == Running(s)
           user == h.user[1]
       IN  IF ~BcryptCompare(h.password, user.password)
           THEN /\ Respond(s, h, WrongPasswordAnswer.status, WrongPasswordAnswer.error,
                           <<WrongPasswordAnswer.message>>)
                /\ log' = log \cup {[kind |-> "wrong password", status |-> sent'[1].status,
                                     error |-> sent'[1].error, body |-> sent'[1].body]}
           ELSE /\ Respond(s, [h EXCEPT !.reached = @ \cup {"token"}], 200, "",
                           <<[message |-> "Login successful", user |-> user.id,
                              token |-> JwtSign([userId |-> user.id, role |-> user.role])]>>)
                /\ UNCHANGED log
    /\ UNCHANGED <<tables, uploads, serial, clock, rateLimitMap, loginFrame>>

\* Logins against the registered account, one at a time.
LoginInit ==
    /\ rateLimitMap = EmptyMap
    /\ clock = 0
    /\ res = <<>>
    /\ solo = NoRun
    /\ nosweep = NoRun
    /\ probe = <<>>
    /\ issued = 0
    /\ admitted = 0
    /\ iso = <<>>
    /\ lastDeny = <<>>
    /\ log = {}
    /\ tables = Registered
    /\ uploads = {}
    /\ active = [s \in Slots |-> <<>>]
    /\ sent = <<>>
    /\ serial = 0

LoginNext ==
    \/ \E rq \in LoginRequests, now \in LoginTimes : LoginReceive(1, rq, now)
    \/ \E s \in Slots : LoginUserResult(s) \/ LoginCompared(s)
    \/ Reject

SpecLogin == LoginInit /\ [][LoginNext]_vars

\* C21: a POST /login request that authRateLimit denies gets the 429 response and its
\* handler never runs: it reaches neither validation, nor the user lookup, nor the
\* password comparison, nor token issuance; every login handler that runs was let
\* through by the limiter.
C21_LimiterBeforeLogin ==
    /\ \A s \in Slots : active[s] # <<>> => ~Running(s).denied
    /\ sent # <<>> =>
          IF sent[1].req.denied
          THEN /\ sent[1].status = 429
               /\ sent[1].req.reached = {}
               /\ sent[1].body[1].message = authRateLimit.message
          ELSE sent[1].status # 429

\* The 101st login of the window is answered 429.
C21_Witness ==
    /\ sent # <<>> /\ sent[1].status = 429
    /\ rateLimitMap["ip1"].count = 100


(* ------------- the limiter with its decisions observed -------------- *)

FrameRequest ==
    \E lim \in Limiters, req \in Requests, now \in Times :
        /\ Middleware(lim, req, now)
        /\ Observed(lim, req, now)
        /\ UNCHANGED <<solo, nosweep, probe, issued, admitted, iso, lastDeny, log>>

FrameCleanup ==
    \E now \in Times :
        /\ Sweep(now)
        /\ UNCHANGED <<solo, nosweep, probe, issued, admitted, iso, lastDeny, log>>

FrameNext == FrameRequest \/ FrameCleanup

SpecFrame == Init /\ [][FrameNext]_vars

\* C22: a denied request leaves the Map as it was: the identifier's count and
\* firstRequest are what they were before the denial, and no other entry changes.
C22_DenyChangesNothing ==
    [][Denied' =>
          /\ rateLimitMap' = rateLimitMap
          /\ Has(rateLimitMap, Last'.key)
          /\ rateLimitMap'[Last'.key].count = rateLimitMap[Last'.key].count
          /\ rateLimitMap'[Last'.key].firstRequest = rateLimitMap[Last'.key].firstRequest]_vars

\* A denial while the other identifier has an entry too.
C22_Witness ==
    /\ Denied
    /\ Last.before = <<rateLimitMap[Last.key]>>
    /\ \E k \in DOMAIN rateLimitMap : k # Last.key


(* ------ observers: the admissions of one key since its window began -- *)

\* issued counts the requests of the probe key that reached next() since the key's
\* entry was created; log holds the quotas (of at least 1) of the limiters that
\* admitted them.
TrackCount(lim, key, now) ==
    LET h       == Handler(rateLimitMap, lim, key, now)
        started == \/ ~Has(rateLimitMap, key)
                   \/ h.map[key].firstRequest # rateLimitMap[key].firstRequest
        passed  == h.did.next = 1
    IN  IF key # probe.key
        THEN UNCHANGED <<issued, log>>
        ELSE /\ issued' = (IF started THEN 0 ELSE issued) + (IF passed THEN 1 ELSE 0)
             /\ log' = (IF started THEN {} ELSE log)
                          \cup (IF passed /\ lim.max >= 1 THEN {lim.max} ELSE {})

CountInit ==
    /\ CoreInit
    /\ solo = NoRun
    /\ nosweep = NoRun
    /\ probe \in [key : Keys]
    /\ issued = 0
    /\ admitted = 0
    /\ iso = NoIso
    /\ lastDeny = <<>>
    /\ log = {}

CountRequest ==
    \E lim \in Limiters, req \in Requests, now \in Times :
        /\ Middleware(lim, req, now)
        /\ res' = <<>>
        /\ TrackCount(lim, KeyOf(req), now)
        /\ UNCHANGED <<solo, nosweep, probe, admitted, iso, lastDeny>>

CountCleanup ==
    \E now \in Times :
        /\ Sweep(now)
        /\ issued' = IF Gone(now) THEN 0 ELSE issued
        /\ log' = IF Gone(now) THEN {} ELSE log
        /\ UNCHANGED <<solo, nosweep, probe, admitted, iso, lastDeny>>

CountNext == CountRequest \/ CountCleanup

SpecCount == CountInit /\ [][CountNext]_vars

\* C23: every entry of the Map has count >= 1; the count of a key is at most the quota
\* of every policy (of quota >= 1) whose limiter admitted a request of the key in the
\* entry's window; and the count is the number of requests admitted for the key since
\* the entry's firstRequest.
C23_CountIsAdmissionsWithinQuota ==
    /\ \A k \in DOMAIN rateLimitMap : rateLimitMap[k].count >= 1
    /\ Has(rateLimitMap, probe.key) =>
          /\ \A max \in log : rateLimitMap[probe.key].count <= max
          /\ rateLimitMap[probe.key].count = issued


\* C24: the retry hint is sufficient: when a request is denied at time t with
\* retryAfter = r, the next request of the same identifier under the same policy, at
\* any time t' >= t + 1000 * r, is allowed.  (Stated for a valid quota and for a
\* window that the same policy opened.)
C24_RetryHintSufficient ==
    [][(/\ Denied
        /\ Last.lim.max >= 1
        /\ Last.before[1].windowMs = Last.lim.windowMs
        /\ Answered'
        /\ Last'.lim = Last.lim
        /\ Last'.key = Last.key
        /\ clock' >= clock + 1000 * Last.did.body[1].retryAfter) => Allowed']_vars


\* C25: of two concurrent POST /vitals requests with the same (memberId, vitalType,
\* value, unit) at most one inserts a row: no such vital has been inserted between a
\* handler's duplicate query and its INSERT, so at the INSERT the duplicate query would
\* still return no row.
C25_CheckAndInsertTogether ==
    [][\A s \in Slots :
          Returned(s, "insert") => RecentSame(tables.health_vitals, Running(s)) = {}]_vars


\* The rows of the two tables whose rows name a stored file.
FileRows == tables.medical_reports \cup tables.documents

\* No handler is between two of its steps.
Quiet == \A s \in Slots : active[s] = <<>>

\* C26: after any sequence of report and document create, update and delete requests,
\* those whose statement failed (500) included, every remaining medical_reports or
\* documents row names a stored file that is still on disk.
C26_RowsHaveTheirFile ==
    Quiet => \A r \in FileRows : r.file_path \in uploads

\* C27: a report or document create/update request that carried a file and ended with a
\* non-success response leaves its file not on disk, and after any sequence of requests
\* every stored file is named by exactly one row.
C27_NoOrphanedUpload ==
    /\ (sent # <<>> /\ sent[1].req.file # 0 /\ sent[1].status \notin {200, 201}) =>
          sent[1].req.file \notin uploads
    /\ Quiet => \A f \in uploads : Cardinality({r \in FileRows : r.file_path = f}) = 1


\* The answers logged for the given kind of failed login.
AnswersTo(kind) == {[status |-> a.status, error |-> a.error, body |-> a.body] :
                       a \in {e \in log : e.kind = kind}}

\* C29: login does not reveal whether an email is registered: every answer to a
\* well-formed login with an unknown email and every answer to one with a known email
\* and a wrong password is the same response, status 401 with the same error and the
\* same message.
C29_LoginDoesNotRevealEmail ==
    \A a \in AnswersTo("unknown email"), b \in AnswersTo("wrong password") :
        /\ a = b
        /\ a.status = 401
        /\ a.error = "Invalid credentials"
        /\ a.body = <<"Email or password is incorrect">>

\* Both kinds of failed login were answered: bob@x.org, which no user has, and
\* ann@x.org with a password that is not hers.
C29_Witness ==
    /\ AnswersTo("unknown email") # {}
    /\ AnswersTo("wrong password") # {}
    /\ sent # <<>> /\ sent[1].status = 401
    /\ sent[1].req.email = "ann@x.org" /\ sent[1].req.password # "secret1"


(* ----------------------------- register ----------------------------- *)

\* The POST /register requests: a body that passes the validator chain or not.
RegisterRequests ==
    [route : {"POST /register"}, email : Emails, password : Passwords,
     familyName : {"Lee"}, valid : BOOLEAN]

\* A POST /register request arrives and takes the first free slot; the handler runs up
\* to the query for an existing user.
RegisterReceive(s, rq) ==
    /\ active[s] = <<>>
    /\ \A other \in Slots : active[other] = <<>> => s <= other
    /\ serial < MaxSerial
    /\ LET n == serial + 1
           h == [route |-> rq.route, email |-> rq.email, password |-> rq.password,
                 familyName |-> rq.familyName, valid |-> rq.valid, n |-> n,
                 pc |-> "start", familyId |-> 0, userId |-> 0]
       IN  /\ serial' = n
           /\ IF ~h.valid
              THEN Respond(s, h, 400, "Validation failed", <<>>)
              ELSE Await(s, h, "existingUser")
    /\ UNCHANGED <<tables, uploads, clock, limiterVars>>

\* SELECT id FROM users WHERE email = $1 returns.
RegisterExisting(s) ==
    /\ Awaits(s, "existingUser")
    /\ LET h == Running(s)
       IN  IF {u \in tables.users : u.email = h.email} # {}
           THEN Respond(s, h, 400, "User already exists", <<>>)
           ELSE Await(s, h, "hashedPassword")
    /\ UNCHANGED <<tables, uploads, serial, clock, limiterVars>>

\* bcrypt.hash returns.
RegisterHashed(s) ==
    /\ Awaits(s, "hashedPassword")
    /\ Await(s, Running(s), "familyResult")
    /\ UNCHANGED <<tables, uploads, serial, clock, limiterVars>>

\* INSERT INTO families ... RETURNING id returns.
RegisterFamily(s) ==
    /\ Awaits(s, "familyResult")
    /\ LET h == Running(s)
       IN  /\ tables' = [tables EXCEPT !.families = @ \cup {FamilyRow(h.n, h)}]
           /\ Await(s, [h EXCEPT !.familyId = h.n], "userResult")
    /\ UNCHANGED <<uploads, serial, clock, limiterVars>>

\* INSERT INTO users ... RETURNING returns.
RegisterUser(s) ==
    /\ Awaits(s, "userResult")
    /\ LET h == Running(s)
       IN  /\ tables' = [tables EXCEPT !.users = @ \cup {UserRow(h.n, h, h.familyId)}]
           /\ Await(s, [h EXCEPT !.userId = h.n], "profile")
    /\ UNCHANGED <<uploads, serial, clock, limiterVars>>

\* INSERT INTO family_members returns; the handler signs the token and answers 201.
RegisterProfile(s) ==
    /\ Awaits(s, "profile")
    /\ LET h == Running(s)
       IN  /\ tables' = [tables EXCEPT
                            !.profiles = @ \cup {ProfileRow(h.n, h.familyId, h.userId)}]
           /\ Respond(s, h, 201, "",
                      <<[message |-> "Family account created successfully",
                         user |-> h.userId, familyId |-> h.familyId,
                         token |-> JwtSign([userId |-> h.userId])]>>)
    /\ UNCHANGED <<uploads, serial, clock, limiterVars>>

RegisterNext ==
    \/ \E rq \in RegisterRequests : RegisterReceive(1, rq)
    \/ \E s \in Slots :
          \/ RegisterExisting(s)
          \/ RegisterHashed(s)
          \/ RegisterFamily(s)
          \/ RegisterUser(s)
          \/ RegisterProfile(s)
    \/ Reject

\* Registrations, one at a time, any of whose awaited calls may fail.
SpecRegister == Init /\ [][RegisterNext]_vars

\* The rows the registration request number n has left in the three account tables.
RowsOf(n) ==
    [families |-> {r \in tables.families : r.id = n},
     users    |-> {r \in tables.users : r.id = n},
     profiles |-> {r \in tables.profiles : r.id = n}]

\* C28: registration is all-or-nothing: a POST /register that answers 201 has created
\* the family row, the admin user row and the family-member row, and one that answers
\* with an error (validation, email already registered, a failing statement) has left
\* none of the three.
C28_RegisterAllOrNothing ==
    (sent # <<>> /\ sent[1].req.route = "POST /register") =>
        LET h == sent[1].req
        IN  IF sent[1].status = 201
            THEN /\ RowsOf(h.n).families = {FamilyRow(h.n, h)}
                 /\ RowsOf(h.n).users = {UserRow(h.n, h, h.n)}
                 /\ RowsOf(h.n).profiles = {ProfileRow(h.n, h.n, h.n)}
            ELSE /\ RowsOf(h.n).families = {}
                 /\ RowsOf(h.n).users = {}
                 /\ RowsOf(h.n).profiles = {}


\* The vital routes, by users of one family, two requests in flight.
RaceNext ==
    \/ ArriveOn(Slots, VitalRoutes, {"f1"})
    \/ \E s \in Slots :
          \/ MemberChecked(s)
          \/ CheckResult(s)
          \/ DuplicateCheck(s)
          \/ Insert(s)
          \/ Update(s)
          \/ Delete(s)
    \/ Reject

SpecRace == Init /\ [][RaceNext]_vars

\* C30: under every interleaving of PUT /vitals/:vitalId with a DELETE of the same
\* vital, a PUT that answers 200 returns the updated row, never an absent record (a PUT
\* that finds no row to update answers 404 instead).
C30_UpdateReturnsRow ==
    Sent("PUT /vitals/:vitalId", 200) =>
        /\ sent[1].body # <<>>
        /\ sent[1].body[1] \in tables.health_vitals
        /\ sent[1].body[1].id = sent[1].req.id

====
